---- MODULE Spec2Model ----
(***************************************************************************)
(* A model of kantan's shared server state (InnerServer behind             *)
(* Arc<Mutex<..>>, src/src/server/inner_server.rs) and of the life of a    *)
(* Request (src/src/request.rs): construction, builder calls, the send     *)
(* path with its two await points, and the merge of the response's         *)
(* Set-Cookie headers into the server's cookie jar.                        *)
(*                                                                         *)
(* Text is modelled as a sequence of tokens: a cookie `b=1; HttpOnly` is   *)
(* <<"b", "=", "1", "; ", "HttpOnly">>.  Parsing and formatting work on    *)
(* these sequences.                                                        *)
(***************************************************************************)
EXTENDS Integers, Sequences, FiniteSets, TLC

\* ------------------------------------------------------------------ bounds
\* The longest list of Set-Cookie header values one response carries.
MaxHdrs == 3

\* The request objects alive at the same time.
Reqs == {"r1", "r2"}

Names == {"a", "b"}

\* ------------------------------------------------------------ text tokens
\* A byte that is not visible ASCII (HeaderValue::to_str fails on it).
NonText == "0xFF"
\* A control character (HeaderValue::from_str fails on it).
Ctl == "LF"

\* ---------------------------------------------------------------- cookies
\* cookie::Cookie: a name, a value and (of the attributes) HttpOnly.
Ck(n, v, h) == [name |-> n, value |-> v, http_only |-> h]

\* CookieJar::new()
EmptyJar == {}

\* A jar that keeps the cookie it has under a name.
JarAddKeep(j, c) == IF \E d \in j : d.name = c.name THEN j ELSE j \cup {c}

\* CookieJar::add: the jar is keyed by name, a new cookie replaces the old.
JarAdd(j, c) == {d \in j : d.name # c.name} \cup {c}

\* CookieJar::add for each cookie of another jar (iteration order is
\* irrelevant: the names of a jar are distinct).
JarAddAll(j, k) == {d \in j : \A c \in k : c.name # d.name} \cup k

\* The cookies test code hands to InnerServer::add_cookie.
ServerInputCookies == { Ck("a", "2", FALSE), Ck("b", "1", TRUE) }

\* The cookies test code hands to Request::add_cookie; the last one has a
\* control character in its value.
InputCookies == { Ck("a", "1", FALSE), Ck("b", "2", FALSE), Ck("b", Ctl, FALSE) }

\* The jars test code hands to InnerServer::add_cookies.
InputJars == { {Ck("a", "1", FALSE), Ck("b", "1", TRUE)} }

\* impl Display for Cookie (cookie.to_string()): name=value followed by the
\* cookie's attributes.
cookie_to_string(c) ==
    <<c.name, "=", c.value>> \o (IF c.http_only THEN <<"; ", "HttpOnly">> ELSE <<>>)

\* The Set-Cookie header values a response of the server under test carries.
HeaderValues ==
    { <<"a", "=", "1">>, <<"a", "=", "2">>,
      <<"b", "=", "1", "; ", "HttpOnly">>,
      <<"a">>,
      <<NonText>> }

\* HeaderValue::to_str succeeds on visible ASCII only.
to_str_ok(h) == \A i \in 1..Len(h) : h[i] # NonText

\* HeaderValue::from_str rejects control characters.
from_str_ok(t) == \A i \in 1..Len(t) : t[i] # Ctl

\* Cookie::parse: the text up to the first `;` must be name=value with a
\* name; the attributes follow.
parse_ok(h) == Len(h) >= 3 /\ h[2] = "=" /\ h[1] # ""

parse(h) == Ck(h[1], h[3], \E i \in 4..Len(h) : h[i] = "HttpOnly")

\* The orders in which CookieJar::iter can yield the cookies of a jar.
Orders(j) ==
    { s \in [1..Cardinality(j) -> j] :
        \A x, y \in 1..Cardinality(j) : x # y => s[x] # s[y] }

VARIABLES
    jar,           \* InnerServer.cookies
    save_cookies,  \* InnerServer.save_cookies (the server's default)
    lock,          \* the holder of the Mutex<InnerServer>, or Free
    poisoned,      \* the mutex is poisoned: a holder panicked
    req,           \* the Request objects and their send futures
    net,           \* per request: calls handed to the transport
    saved,         \* history: name/value pairs stored from completed responses and still standing
    expect,        \* history: per request, the pairs of `saved` it was built from and kept
    fresh,         \* history: clear_cookies ran and nothing was stored since
    default_content_type, \* InnerServer.default_content_type
    server_address,       \* InnerServer.server_address
    owner,         \* the test's own Arc<Mutex<InnerServer>> is alive
    aborted,       \* InnerServer was dropped: server_thread.abort() has run
    server_call_failed    \* a call on the server returned the lock error

vars == <<jar, save_cookies, lock, poisoned, req, net, saved, expect, fresh,
          default_content_type, server_address, owner, aborted, server_call_failed>>

\* What no step of a request changes: the server's settings, the test's own
\* reference and the results of the test's calls on the server.
server_side ==
    <<save_cookies, default_content_type, server_address, owner, server_call_failed>>

Free == "free"

\* An Option<String> is a sequence of at most one text, a text a sequence of
\* characters: None, and Some(t).
NoContentType == <<>>
Some(t) == <<t>>

JSON_CONTENT_TYPE == <<"application/json">>
TEXT_CONTENT_TYPE == <<"text/plain">>

\* The content types a test passes to content_type(): a media type, the
\* empty string, and one with a character no header value may hold.
ContentTypes == {<<"x">>, <<>>, <<Ctl>>}

\* The default content types of a server: none, or a media type.
DefaultContentTypes == {NoContentType, Some(<<"d">>)}

\* The addresses of a server, as text, and the one of the servers whose
\* requests are followed through their sends.
Addresses == {<<"h">>, <<"h", ":", "8">>}
MainAddress == <<"h">>

\* The sub-paths a test asks for are the texts of up to MaxPathLen of these
\* characters; MainPaths are those of the requests followed through their
\* sends.
MaxPathLen == 2
PathChars == {"/", "x"}
Paths == UNION {[1..n -> PathChars] : n \in 0..MaxPathLen}
MainPaths == {<<"/">>}

\* The builder calls of one request whose content type is followed.
MaxCalls == 2

\* A slot no Request has been created in.  `calls` is history: the calls of
\* json, text, bytes and content_type made on the request, in order; so is
\* `base`: the jar as the merge of the request's response found it.
NoReq ==
    [pc |-> "none", save |-> FALSE, cookies |-> EmptyJar, wire |-> <<>>,
     resp |-> <<>>, cur |-> <<>>, stored |-> EmptyJar, resp_n |-> 0, result |-> "none",
     outcome |-> "none", path |-> <<>>, url |-> <<>>,
     content_type |-> NoContentType, body |-> "none", calls |-> <<>>,
     base |-> EmptyJar]


\* The name/value pair of a cookie, as the history variables record it.
Pair(c) == [name |-> c.name, value |-> c.value]

\* The pairs of ps whose name is not n.
Without(ps, n) == {p \in ps : p.name # n}

\* The cookie each name ends with after the headers hs, all of which parse,
\* have been stored one after the other.
RECURSIVE StoreAll(_, _)
StoreAll(j, hs) ==
    IF hs = <<>> THEN j ELSE StoreAll(JarAdd(j, parse(Head(hs))), Tail(hs))

Init ==
    /\ jar = EmptyJar
    /\ save_cookies \in BOOLEAN
    /\ lock = Free
    /\ poisoned = FALSE
    /\ req = [r \in Reqs |-> NoReq]
    /\ net = [r \in Reqs |-> 0]
    /\ saved = {}
    /\ expect = [r \in Reqs |-> {}]
    /\ fresh = FALSE
    /\ default_content_type = NoContentType
    /\ server_address = MainAddress
    /\ owner = TRUE
    /\ aborted = FALSE
    /\ server_call_failed = FALSE

\* ------------------------------------------------ the server's own calls
\* The requests that hold a clone of the Arc: from InnerServer::send's
\* this.clone() until the Request, or the future send made of it, is gone.
HoldsArc(r) ==
    req[r].pc \in {"new_locked", "built", "awaiting_transport", "reading_body",
                   "saving", "merging"}

\* An InnerServer that is dropped as soon as the test's reference is.
dropped_with_owner == ~owner

\* The last Arc is gone: neither the test nor a request holds one.
last_reference_dropped == ~owner /\ \A r \in Reqs : ~HoldsArc(r)

\* impl Drop for InnerServer, run by the step that drops the last Arc:
\* server_thread.abort().
InnerServer_drop == aborted' = (aborted \/ last_reference_dropped')

\* A lock() that hands out the guard of a poisoned mutex all the same.
lock_ignores_poison == FALSE

\* Mutex::lock returns Err exactly when the mutex is poisoned; with_this and
\* with_this_mut turn that into the lock error and return it.
lock_fails == poisoned

\* A clear_cookies that leaves the jar as it is.
UnclearedJar == jar

\* The jar clear_cookies stores: CookieJar::new().
ClearedJar == EmptyJar

\* InnerServer::clear_cookies, through with_this_mut.  On a poisoned mutex
\* the call returns the lock error and changes nothing else.
clear_cookies ==
    /\ owner /\ lock = Free
    /\ IF lock_fails
       THEN /\ server_call_failed' = TRUE
            /\ UNCHANGED <<jar, saved, fresh>>
       ELSE /\ jar' = ClearedJar
            /\ saved' = {}
            /\ fresh' = TRUE
            /\ UNCHANGED server_call_failed
    /\ UNCHANGED <<save_cookies, default_content_type, server_address, owner,
                   lock, poisoned, req, net, expect>>
    /\ InnerServer_drop

\* InnerServer::add_cookie, through with_this_mut.
add_cookie(c) ==
    /\ owner /\ lock = Free
    /\ IF lock_fails
       THEN /\ server_call_failed' = TRUE
            /\ UNCHANGED <<jar, saved, fresh>>
       ELSE /\ jar' = JarAdd(jar, c)
            /\ saved' = Without(saved, c.name)
            /\ fresh' = FALSE
            /\ UNCHANGED server_call_failed
    /\ UNCHANGED <<save_cookies, default_content_type, server_address, owner,
                   lock, poisoned, req, net, expect>>
    /\ InnerServer_drop

\* InnerServer::add_cookies, through with_this_mut.
add_cookies(k) ==
    /\ owner /\ lock = Free
    /\ IF lock_fails
       THEN /\ server_call_failed' = TRUE
            /\ UNCHANGED <<jar, saved, fresh>>
       ELSE /\ jar' = JarAddAll(jar, k)
            /\ saved' = {p \in saved : \A c \in k : c.name # p.name}
            /\ fresh' = FALSE
            /\ UNCHANGED server_call_failed
    /\ UNCHANGED <<save_cookies, default_content_type, server_address, owner,
                   lock, poisoned, req, net, expect>>
    /\ InnerServer_drop

\* The test drops its own reference to the server.  (It cannot while a call
\* of InnerServer::send borrows it.)
drop_server ==
    /\ owner
    /\ \A r \in Reqs : req[r].pc \notin {"configured", "new_locked"}
    /\ owner' = FALSE
    /\ UNCHANGED <<jar, save_cookies, default_content_type, server_address,
                   server_call_failed, lock, poisoned, req, net, saved, expect, fresh>>
    /\ InnerServer_drop

\* ---------------------------------------------------- creating a Request
\* An await that swallows a failed send and yields a response all the same.
send_or_default(result) == "response"

\* send_or_panic: expect() on the result of send.
send_or_panic(result) == IF result = "ok" THEN "response" ELSE "panic"

\* The record a finished send leaves: send() has consumed the Request.
Finished(r, result) ==
    [NoReq EXCEPT !.pc = "done", !.save = req[r].save, !.result = result,
                  !.outcome = send_or_panic(result)]

\* InnerServer::send, called for the sub-path p, up to its call of
\* Request::new: test_request_config reads the defaults through with_this.  A poisoned mutex makes it return
\* the lock error: no Request comes to exist.
test_request_config(r, p) ==
    /\ owner
    /\ req[r].pc = "none"
    /\ lock = Free
    /\ req' = [req EXCEPT ![r] =
                 IF lock_fails THEN [NoReq EXCEPT !.pc = "failed", !.result = "lock_err"]
                 ELSE [NoReq EXCEPT !.pc = "configured", !.save = save_cookies,
                                    !.content_type = default_content_type,
                                    !.path = p]]
    /\ UNCHANGED <<jar, server_side, lock, poisoned, net, saved, expect, fresh>>
    /\ InnerServer_drop

\* Request::new, the lock() of lines 91-98.
Request_new_lock(r) ==
    /\ req[r].pc = "configured"
    /\ lock = Free
    /\ IF lock_fails
       THEN /\ req' = [req EXCEPT ![r] = [NoReq EXCEPT !.pc = "failed", !.result = "lock_err"]]
            /\ lock' = lock
       ELSE /\ req' = [req EXCEPT ![r].pc = "new_locked"]
            /\ lock' = r
    /\ UNCHANGED <<jar, server_side, poisoned, net, saved, expect, fresh>>
    /\ InnerServer_drop

\* Request::new starting from CookieJar::new() instead of the server's jar.
InnerServer_cookies_none == EmptyJar

\* InnerServer::cookies
InnerServer_cookies == jar

\* The guard kept alive in the Request instead of being dropped.
keep_server_locked(r) == r

\* The holder of the mutex after drop(server_locked).
drop_server_locked(r) == Free

\* A join that puts the sub-path right behind the address.
build_request_path_concat(root_path, sub_path) ==
    <<"http://">> \o root_path \o sub_path

\* build_request_path, lines 262-272.
build_request_path(root_path, sub_path) ==
    IF sub_path = <<>> THEN <<"http://">> \o root_path
    ELSE IF Head(sub_path) = "/" THEN <<"http://">> \o root_path \o sub_path
    ELSE <<"http://">> \o root_path \o <<"/">> \o sub_path

\* Request::new, lines 99-114: the URL, the snapshot of the jar, and the
\* unlock.
Request_new(r) ==
    /\ req[r].pc = "new_locked"
    /\ lock = r
    /\ req' = [req EXCEPT ![r].pc = "built", ![r].cookies = InnerServer_cookies,
                          ![r].url = build_request_path(server_address, req[r].path)]
    /\ lock' = drop_server_locked(r)
    /\ expect' = [expect EXCEPT ![r] = saved]
    /\ UNCHANGED <<jar, server_side, poisoned, net, saved, fresh>>
    /\ InnerServer_drop

\* ------------------------------------------------------ builder methods
do_save_cookies(r) ==
    /\ req[r].pc = "built"
    /\ req' = [req EXCEPT ![r].save = TRUE]
    /\ UNCHANGED <<jar, server_side, lock, poisoned, net, saved, expect, fresh>>
    /\ InnerServer_drop

do_not_save_cookies(r) ==
    /\ req[r].pc = "built"
    /\ req' = [req EXCEPT ![r].save = FALSE]
    /\ UNCHANGED <<jar, server_side, lock, poisoned, net, saved, expect, fresh>>
    /\ InnerServer_drop

\* Request::clear_cookies
Request_clear_cookies(r) ==
    /\ req[r].pc = "built"
    /\ req' = [req EXCEPT ![r].cookies = EmptyJar]
    /\ expect' = [expect EXCEPT ![r] = {}]
    /\ UNCHANGED <<jar, server_side, lock, poisoned, net, saved, fresh>>
    /\ InnerServer_drop

\* A Request::add_cookie that also stores the cookie in the server's jar.
Request_add_cookie_shared(r, c) ==
    /\ req[r].pc = "built"
    /\ req' = [req EXCEPT ![r].cookies = JarAdd(@, c)]
    /\ jar' = JarAdd(jar, c)
    /\ expect' = [expect EXCEPT ![r] = Without(@, c.name)]
    /\ UNCHANGED <<server_side, lock, poisoned, net, saved, fresh>>
    /\ InnerServer_drop

\* Request::add_cookie
Request_add_cookie(r, c) ==
    /\ req[r].pc = "built"
    /\ req' = [req EXCEPT ![r].cookies = JarAdd(@, c)]
    /\ expect' = [expect EXCEPT ![r] = Without(@, c.name)]
    /\ UNCHANGED <<jar, server_side, lock, poisoned, net, saved, fresh>>
    /\ InnerServer_drop

\* One call of a builder method that sets the body or the content type.
Call(op, arg) == [op |-> op, arg |-> arg]

\* A json that sets the content type whatever it was.
json_content_type_always(r) == Some(JSON_CONTENT_TYPE)

\* Lines 155-157 of Request::json.
json_content_type(r) ==
    IF req[r].content_type = NoContentType THEN Some(JSON_CONTENT_TYPE)
    ELSE req[r].content_type

\* Request::json; a body that does not serialize panics in the expect of
\* line 151, and the Request is gone.
json(r, serializes) ==
    /\ req[r].pc = "built"
    /\ Len(req[r].calls) < MaxCalls
    /\ req' = [req EXCEPT ![r] =
                 IF serializes
                 THEN [@ EXCEPT !.body = "json", !.content_type = json_content_type(r),
                                !.calls = Append(@, Call("json", <<>>))]
                 ELSE [NoReq EXCEPT !.pc = "dropped", !.save = req[r].save,
                                    !.result = "panic"]]
    /\ UNCHANGED <<jar, server_side, lock, poisoned, net, saved, expect, fresh>>
    /\ InnerServer_drop

\* Request::text, with the call of Request::bytes it ends in.
text(r) ==
    /\ req[r].pc = "built"
    /\ Len(req[r].calls) < MaxCalls
    /\ req' = [req EXCEPT ![r].body = "text",
                          ![r].content_type =
                              IF @ = NoContentType THEN Some(TEXT_CONTENT_TYPE) ELSE @,
                          ![r].calls = Append(@, Call("text", <<>>))]
    /\ UNCHANGED <<jar, server_side, lock, poisoned, net, saved, expect, fresh>>
    /\ InnerServer_drop

\* Request::bytes
bytes(r) ==
    /\ req[r].pc = "built"
    /\ Len(req[r].calls) < MaxCalls
    /\ req' = [req EXCEPT ![r].body = "bytes",
                          ![r].calls = Append(@, Call("bytes", <<>>))]
    /\ UNCHANGED <<jar, server_side, lock, poisoned, net, saved, expect, fresh>>
    /\ InnerServer_drop

\* A content_type that keeps a content type the request already has.
content_type_if_unset(r, t) ==
    IF req[r].content_type = NoContentType THEN Some(t) ELSE req[r].content_type

\* Line 191 of Request::content_type.
content_type_set(r, t) == Some(t)

\* Request::content_type
content_type(r, t) ==
    /\ req[r].pc = "built"
    /\ Len(req[r].calls) < MaxCalls
    /\ req' = [req EXCEPT ![r].content_type = content_type_set(r, t),
                          ![r].calls = Append(@, Call("content_type", t))]
    /\ UNCHANGED <<jar, server_side, lock, poisoned, net, saved, expect, fresh>>
    /\ InnerServer_drop

\* A Request that is dropped without having been awaited.
drop_request(r) ==
    /\ req[r].pc = "built"
    /\ req' = [req EXCEPT ![r] = [NoReq EXCEPT !.pc = "dropped", !.save = req[r].save]]
    /\ expect' = [expect EXCEPT ![r] = {}]
    /\ UNCHANGED <<jar, server_side, lock, poisoned, net, saved, fresh>>
    /\ InnerServer_drop

\* ------------------------------------------------------------ Request::send
\* The Cookie headers of lines 215-220: one header per cookie of the jar, in
\* the order the jar yields them, each the cookie's to_string().
cookie_headers(order) ==
    [i \in 1..Len(order) |-> [name |-> "cookie", value |-> cookie_to_string(order[i])]]

\* A send that leaves the Content-Type header out.
no_content_type_header(ct) == <<>>

\* Lines 208-213: the Content-Type header, if the request has a content type.
content_type_header(ct) ==
    IF ct = NoContentType THEN <<>>
    ELSE <<[name |-> "content-type", value |-> ct[1]]>>

\* send saving the cookies whatever the flag says.
is_saving_cookies_always(r) == TRUE

\* `save_cookies`, the value of is_saving_cookies that send reads (line 201)
\* and tests after the body is read (line 242).
is_saving_cookies(r) == req[r].save

\* A send that reads the cookies of the server's jar as it is now.
server_cookies_at_send(r) == jar

\* self.cookies, the jar send iterates over (line 216).
self_cookies(r) == req[r].cookies

\* send, lines 199-235, up to the await of the transport: the headers are
\* built (a value from_str rejects ends the send with that error), the
\* request is built and handed to the client.
send_dispatch(r) ==
    /\ req[r].pc = "built"
    /\ \E order \in Orders(self_cookies(r)) :
         IF \/ req[r].content_type # NoContentType /\ ~from_str_ok(req[r].content_type[1])
            \/ \E c \in self_cookies(r) : ~from_str_ok(cookie_to_string(c))
         THEN /\ req' = [req EXCEPT ![r] = Finished(r, "build_err")]
              /\ expect' = [expect EXCEPT ![r] = {}]
              /\ net' = net
         ELSE /\ req' = [req EXCEPT ![r].pc = "awaiting_transport",
                                    ![r].wire = content_type_header(req[r].content_type)
                                                  \o cookie_headers(order)]
              /\ net' = [net EXCEPT ![r] = @ + 1]
              /\ expect' = expect
    /\ UNCHANGED <<jar, server_side, lock, poisoned, saved, fresh>>
    /\ InnerServer_drop

\* A send that dispatches again after a transport error.
retry_after_transport_error(r) == [req[r] EXCEPT !.pc = "built"]

\* What a failed transport call leaves of the send: the error ends it.
after_transport_error(r) == Finished(r, "transport_err")

\* Line 237: the transport fails; `?` returns the error.
transport_error(r) ==
    /\ req[r].pc = "awaiting_transport"
    /\ req' = [req EXCEPT ![r] = after_transport_error(r)]
    /\ expect' = [expect EXCEPT ![r] = {}]
    /\ UNCHANGED <<jar, server_side, lock, poisoned, net, saved, fresh>>
    /\ InnerServer_drop

\* Lines 234-239: the transport answers, which takes a server that is still
\* serving; the request that was sent is gone, send goes on to await the body.
transport_response(r) ==
    /\ req[r].pc = "awaiting_transport"
    /\ ~aborted
    /\ req' = [req EXCEPT ![r] =
                 [NoReq EXCEPT !.pc = "reading_body", !.save = req[r].save]]
    /\ expect' = [expect EXCEPT ![r] = {}]
    /\ UNCHANGED <<jar, server_side, lock, poisoned, net, saved, fresh>>
    /\ InnerServer_drop

\* Line 240: reading the body fails.
body_error(r) ==
    /\ req[r].pc = "reading_body"
    /\ req' = [req EXCEPT ![r] = Finished(r, "body_err")]
    /\ UNCHANGED <<jar, server_side, lock, poisoned, net, saved, expect, fresh>>
    /\ InnerServer_drop

\* Lines 240-248 of a request that saves no cookies: the body is read and
\* the response is returned, with n Set-Cookie headers that nobody reads.
body_read_no_save(r, n) ==
    /\ req[r].pc = "reading_body"
    /\ ~is_saving_cookies(r)
    /\ req' = [req EXCEPT ![r] = [Finished(r, "ok") EXCEPT !.resp_n = n]]
    /\ UNCHANGED <<jar, server_side, lock, poisoned, net, saved, expect, fresh>>
    /\ InnerServer_drop

\* Lines 240-242 of a request that saves cookies: the body is read, the
\* request goes on to add_cookies_by_header.
body_read_save(r) ==
    /\ req[r].pc = "reading_body"
    /\ is_saving_cookies(r)
    /\ req' = [req EXCEPT ![r].pc = "saving"]
    /\ UNCHANGED <<jar, server_side, lock, poisoned, net, saved, expect, fresh>>
    /\ InnerServer_drop

\* ------------------------------------------- InnerServer::add_cookies_by_header
\* In a request that is merging, req[r].resp is the list of the response's
\* Set-Cookie values the loop has stored so far and req[r].cur the value the
\* iterator has just yielded (<<>> when the loop is between two values).

\* Lines 243-244 and with_this_mut's lock(): the iterator over the response's
\* Set-Cookie values is taken and the mutex is locked; a poisoned mutex is
\* the lock error.
add_cookies_by_header_lock(r) ==
    /\ req[r].pc = "saving"
    /\ lock = Free
    /\ IF lock_fails
       THEN /\ req' = [req EXCEPT ![r] = Finished(r, "lock_err")]
            /\ lock' = lock
       ELSE /\ req' = [req EXCEPT ![r].pc = "merging", ![r].base = jar]
            /\ lock' = r
    /\ UNCHANGED <<jar, server_side, poisoned, net, saved, expect, fresh>>
    /\ InnerServer_drop

\* Line 82: the iterator yields the response's next Set-Cookie value h.
add_cookies_by_header_next(r, h) ==
    /\ req[r].pc = "merging"
    /\ lock = r
    /\ req[r].cur = <<>>
    /\ Len(req[r].resp) < MaxHdrs
    /\ req' = [req EXCEPT ![r].cur = h]
    /\ UNCHANGED <<jar, server_side, lock, poisoned, net, saved, expect, fresh>>
    /\ InnerServer_drop

\* The closure collecting the response's cookies in a jar of its own, which
\* then replaces the server's.
this_cookies_new(r) == EmptyJar

\* The jar the closure adds to: this.cookies, under the lock.
this_cookies(r) == jar

\* A loop that skips a header that does not parse and goes on.
skip_parse_error(r) == [req[r] EXCEPT !.cur = <<>>]

\* What a header that does not parse leaves of the send: `?` returns the
\* error out of the loop, which drops the guard.  `stored` keeps the cookies
\* the headers before it left in the jar.
after_parse_error(r) ==
    [Finished(r, "parse_err") EXCEPT !.stored = StoreAll(EmptyJar, req[r].resp)]

\* A merge that locks the mutex for each value and unlocks after it.
guard_per_value(r) == Free

\* The holder of the mutex between two values of the loop: with_this_mut's
\* guard lives for the whole closure (lines 81-93).
guard_in_loop(r) == r

\* Lines 83-89, the body of the loop on the value the iterator yielded.
add_cookies_by_header_body(r) ==
    /\ req[r].pc = "merging"
    /\ lock = r
    /\ req[r].cur # <<>>
    /\ LET h == req[r].cur IN
         IF ~to_str_ok(h)
         THEN \* unwrap() panics; the guard is dropped while panicking
              /\ req' = [req EXCEPT ![r] = Finished(r, "panic")]
              /\ lock' = Free
              /\ poisoned' = TRUE
              /\ UNCHANGED <<jar, saved, fresh>>
         ELSE IF ~parse_ok(h)
         THEN /\ req' = [req EXCEPT ![r] = after_parse_error(r)]
              /\ lock' = IF req'[r].pc = "done" THEN Free ELSE lock
              /\ UNCHANGED <<jar, poisoned, saved, fresh>>
         ELSE /\ jar' = JarAdd(this_cookies(r), parse(h))
              /\ req' = [req EXCEPT ![r].resp = Append(@, h), ![r].cur = <<>>]
              /\ saved' = Without(saved, parse(h).name)
              /\ fresh' = FALSE
              /\ lock' = guard_in_loop(r)
              /\ UNCHANGED poisoned
    /\ UNCHANGED <<server_side, net, expect>>
    /\ InnerServer_drop

\* The iterator is exhausted: Ok(()), the guard is dropped, send returns the
\* response.  `stored` keeps the cookies this response left in the jar.
add_cookies_by_header_end(r) ==
    /\ req[r].pc = "merging"
    /\ lock = r
    /\ req[r].cur = <<>>
    /\ req' = [req EXCEPT ![r] =
                 [Finished(r, "ok") EXCEPT !.stored = StoreAll(EmptyJar, req[r].resp),
                                           !.resp_n = Len(req[r].resp)]]
    /\ lock' = Free
    /\ saved' = {p \in saved : \A c \in StoreAll(EmptyJar, req[r].resp) : c.name # p.name}
                  \cup {Pair(c) : c \in StoreAll(EmptyJar, req[r].resp)}
    /\ UNCHANGED <<jar, server_side, poisoned, net, expect, fresh>>
    /\ InnerServer_drop

\* ---------------------------------------------------------------- the system
RequestNext(r) ==
    \/ \E p \in MainPaths : test_request_config(r, p)
    \/ Request_new_lock(r)
    \/ Request_new(r)
    \/ do_save_cookies(r)
    \/ do_not_save_cookies(r)
    \/ Request_clear_cookies(r)
    \/ \E c \in InputCookies : Request_add_cookie(r, c)
    \/ drop_request(r)
    \/ send_dispatch(r)
    \/ transport_error(r)
    \/ transport_response(r)
    \/ body_error(r)
    \/ \E n \in 0..MaxHdrs : body_read_no_save(r, n)
    \/ body_read_save(r)
    \/ add_cookies_by_header_lock(r)
    \/ \E h \in HeaderValues : add_cookies_by_header_next(r, h)
    \/ add_cookies_by_header_body(r)
    \/ add_cookies_by_header_end(r)

ServerNext ==
    \/ clear_cookies
    \/ \E c \in ServerInputCookies : add_cookie(c)
    \/ \E k \in InputJars : add_cookies(k)
    \/ drop_server

Next == ServerNext \/ \E r \in Reqs : RequestNext(r)

Spec == Init /\ [][Next]_vars

\* Two requests against one server whose jar only responses change.
NextRequests == \E r \in Reqs : RequestNext(r)

SpecRequests == Init /\ [][NextRequests]_vars

\* The steps of request r that no test code has to ask for: Request::new
\* runs on from its lock(), a transport that answers ends the first await,
\* the body ends the second, and the merge runs from with_this_mut's lock()
\* to its return.
Progress(r) ==
    \/ Request_new(r)
    \/ transport_error(r)
    \/ transport_response(r)
    \/ body_error(r)
    \/ \E n \in 0..MaxHdrs : body_read_no_save(r, n)
    \/ body_read_save(r)
    \/ add_cookies_by_header_lock(r)
    \/ \E h \in HeaderValues : add_cookies_by_header_next(r, h)
    \/ add_cookies_by_header_body(r)
    \/ add_cookies_by_header_end(r)

\* Two requests whose futures are polled until they complete, with a
\* transport that answers.
SpecPolled == Init /\ [][NextRequests]_vars /\ \A r \in Reqs : WF_vars(Progress(r))

\* One request of a server of any address and default content type, for any
\* sub-path, built and given a body and a content type by up to MaxCalls
\* calls, and sent.
InitBuilder ==
    /\ jar = EmptyJar
    /\ save_cookies = FALSE
    /\ lock = Free
    /\ poisoned = FALSE
    /\ req = [r \in Reqs |-> NoReq]
    /\ net = [r \in Reqs |-> 0]
    /\ saved = {}
    /\ expect = [r \in Reqs |-> {}]
    /\ fresh = FALSE
    /\ default_content_type \in DefaultContentTypes
    /\ server_address \in Addresses
    /\ owner = TRUE
    /\ aborted = FALSE
    /\ server_call_failed = FALSE

BuilderNext(r) ==
    \/ \E p \in Paths : test_request_config(r, p)
    \/ Request_new_lock(r)
    \/ Request_new(r)
    \/ \E serializes \in BOOLEAN : json(r, serializes)
    \/ text(r)
    \/ bytes(r)
    \/ \E t \in ContentTypes : content_type(r, t)
    \/ send_dispatch(r)

NextBuilder == BuilderNext("r1")

SpecBuilder == InitBuilder /\ [][NextBuilder]_vars

\* ================================================================ properties
PreSend == {"none", "configured", "new_locked", "built"}
Sending == {"awaiting_transport", "reading_body", "saving", "merging"}

\* The step is one of request r.
StepOf(r) == req'[r] # req[r]

\* The Cookie header value t carries the pair p as its name=value.
Carries(t, p) == Len(t) >= 3 /\ t[1] = p.name /\ t[2] = "=" /\ t[3] = p.value

\* C1: a request built after a saved response stored n=v in the jar (with no
\* clear or overwrite of n since, on the server or on the request) has n=v in
\* a Cookie header of the request it sends.
C1_CookiePropagation ==
    \A r \in Reqs : req[r].pc = "awaiting_transport" =>
        \A p \in expect[r] :
            \E i \in 1..Len(req[r].wire) :
                req[r].wire[i].name = "cookie" /\ Carries(req[r].wire[i].value, p)

\* A request in flight that carries a cookie an earlier response stored.
C1_Witness ==
    \E r \in Reqs : req[r].pc = "awaiting_transport" /\ expect[r] # {}

\* C2: no step of the send of a request whose is_saving_cookies is false
\* changes the server's jar, down to the step that completes it.
C2_NoSaveLeavesJar ==
    [][ \A r \in Reqs :
          (req[r].pc \in {"built"} \cup Sending /\ ~req[r].save /\ StepOf(r))
              => jar' = jar ]_vars

\* A request that did not save has completed with a response that carried
\* Set-Cookie headers, and the jar is empty.
C2_Witness ==
    \E r \in Reqs :
        /\ req[r].pc = "done" /\ req[r].result = "ok" /\ ~req[r].save
        /\ req[r].resp_n > 0
        /\ jar = EmptyJar

\* Request r has completed, and saved the cookies of its response.
SavedOk(r) == req[r].pc = "done" /\ req[r].result = "ok" /\ req[r].save

\* C3: when two requests that save cookies have both completed and their
\* responses set cookies of different names, the jar holds the cookies of
\* both, whatever the interleaving of their steps was.
C3_NoLostUpdate ==
    \A r1, r2 \in Reqs :
        (/\ r1 # r2 /\ SavedOk(r1) /\ SavedOk(r2)
         /\ \A c1 \in req[r1].stored, c2 \in req[r2].stored : c1.name # c2.name)
        => (req[r1].stored \cup req[r2].stored) \subseteq jar

\* Two completed requests whose responses set a cookie each, of different names.
C3_Witness ==
    \E r1, r2 \in Reqs :
        /\ r1 # r2 /\ SavedOk(r1) /\ SavedOk(r2)
        /\ req[r1].stored # {} /\ req[r2].stored # {}
        /\ \A c1 \in req[r1].stored, c2 \in req[r2].stored : c1.name # c2.name

\* C4: a request holds the mutex only inside Request::new's snapshot and
\* inside add_cookies_by_header; it does not hold it between construction and
\* send, nor at the awaits of the transport and of the body.
C4_LockNotHeldWhileSuspended ==
    /\ lock \in Reqs \cup {Free}
    /\ \A r \in Reqs :
        /\ lock = r => req[r].pc \in {"new_locked", "merging"}
        /\ req[r].pc \in {"built", "awaiting_transport", "reading_body"} => lock # r

\* A request awaits the transport after its own snapshot took and released
\* the mutex, which another request now holds.
C4_Witness ==
    \E r, q \in Reqs :
        /\ r # q /\ req[r].pc = "awaiting_transport" /\ lock = q
        /\ req[q].pc = "merging"

\* C5: a request hands at most one call to the transport; a transport error
\* ends the send, reaches the awaiting caller, and is not followed by another
\* call; a request whose send has begun is never a buildable request again.
C5_SingleShot ==
    /\ \A r \in Reqs :
        /\ net[r] <= 1
        /\ req[r].pc \in PreSend => net[r] = 0
        /\ req[r].result = "transport_err" =>
             req[r].pc = "done" /\ req[r].outcome = "panic" /\ net[r] = 1

\* A request whose dispatch failed in the transport.
C5_Witness ==
    \E r \in Reqs : req[r].result = "transport_err" /\ net[r] = 1

\* C6: creating a request, every builder call on it and dropping it unsent
\* hand nothing to the transport and leave the server's jar, defaults and
\* mutex health as they were.
C6_DeferredExecution ==
    [][ \A r \in Reqs :
          (/\ req[r].pc \in PreSend
           /\ req'[r].pc \in PreSend \cup {"dropped", "failed"}
           /\ StepOf(r))
          => /\ net[r] = 0 /\ net' = net
             /\ jar' = jar
             /\ save_cookies' = save_cookies
             /\ poisoned' = poisoned ]_vars

\* A request was dropped unsent, after a builder call changed its saving
\* flag, while the jar holds cookies.
C6_Witness ==
    \E r \in Reqs :
        /\ req[r].pc = "dropped" /\ req[r].save # save_cookies /\ net[r] = 0
        /\ jar # EmptyJar

\* C7: a request whose snapshot is taken after clear_cookies, with no add
\* and no merge in between, starts with no cookies.
C7_ClearThenNew ==
    [][ \A r \in Reqs :
          (req[r].pc = "new_locked" /\ req'[r].pc = "built" /\ fresh)
              => req'[r].cookies = EmptyJar ]_vars

\* A request is about to take its snapshot after a clear_cookies that
\* followed a response which had stored cookies.
C7_Witness ==
    \E r, q \in Reqs :
        /\ req[r].pc = "new_locked" /\ fresh
        /\ SavedOk(q) /\ req[q].stored # {}

\* The name=value pairs of the cookies, in the given order, joined by "; ".
RECURSIVE JoinPairs(_)
JoinPairs(order) ==
    IF order = <<>> THEN <<>>
    ELSE <<order[1].name, "=", order[1].value>>
           \o (IF Len(order) > 1 THEN <<"; ">> ELSE <<>>)
           \o JoinPairs(Tail(order))

\* The values of the Cookie headers of a request on the wire.
CookieValues(w) == SelectSeq(w, LAMBDA hd : hd.name = "cookie")

\* C8: the request on the wire has one Cookie header: the name=value pairs of
\* all cookies of the snapshot joined by "; ", with no attributes.
C8_SingleCookieHeader ==
    \A r \in Reqs :
        (req[r].pc = "awaiting_transport" /\ req[r].cookies # EmptyJar) =>
            /\ Len(CookieValues(req[r].wire)) = 1
            /\ \E order \in Orders(req[r].cookies) :
                 CookieValues(req[r].wire)[1].value = JoinPairs(order)

\* The merge of request r is at a header that is text and does not parse.
AtParseFailure(r) ==
    /\ req[r].pc = "merging"
    /\ req[r].cur # <<>>
    /\ to_str_ok(req[r].cur)
    /\ ~parse_ok(req[r].cur)

\* What the step of a merge at a header that does not parse does, apart from
\* what it leaves in the jar: the error ends the send, the mutex is released
\* unpoisoned, and the jar is as the headers before left it.
StopsAtFailure(r) ==
    /\ req'[r].pc = "done" /\ req'[r].result = "parse_err"
    /\ lock' = Free /\ poisoned' = poisoned
    /\ jar' = jar

\* A finished send takes no further step.
DoneIsFinal(r) == req[r].pc = "done" => req'[r] = req[r]

\* C9 as stated: at the first header that does not parse the merge stops with
\* the error, EVERY cookie of the headers before it is in the jar, and nothing
\* of that header or of a later one is stored.
C9_EveryEarlierCookieKept ==
    [][ \A r \in Reqs :
          /\ DoneIsFinal(r)
          /\ (AtParseFailure(r) /\ StepOf(r)) =>
               /\ StopsAtFailure(r)
               /\ \A i \in 1..Len(req[r].resp) : parse(req[r].resp[i]) \in jar' ]_vars

\* C9, amended: ... for every cookie name of the headers before it, the
\* cookie of the LAST of them with that name is in the jar ...
C9_MergeStopsAtFirstFailure ==
    [][ \A r \in Reqs :
          /\ DoneIsFinal(r)
          /\ (AtParseFailure(r) /\ StepOf(r)) =>
               /\ StopsAtFailure(r)
               /\ StoreAll(EmptyJar, req[r].resp) \subseteq jar' ]_vars

\* A merge ended with the parse error after it had stored cookies, which are
\* in the jar.
C9_Witness ==
    \E r \in Reqs :
        /\ req[r].pc = "done" /\ req[r].result = "parse_err"
        /\ req[r].stored # {} /\ req[r].stored \subseteq jar

\* C10: an awaited request yields a response or panics, never an error value;
\* it yields the response exactly when send returned Ok, that is when no step
\* of the send failed, and panics on each of the failures.
C10_AwaitPanicsOnFailure ==
    \A r \in Reqs :
        /\ req[r].pc = "done" =>
             /\ req[r].outcome \in {"response", "panic"}
             /\ req[r].outcome = "response" <=> req[r].result = "ok"
             /\ req[r].result \in {"build_err", "transport_err", "body_err",
                                   "lock_err", "parse_err", "panic"}
                  => req[r].outcome = "panic"
        /\ req[r].pc # "done" => req[r].outcome = "none"

\* One awaited request panicked on a Set-Cookie parse error, after the cookies
\* before the bad header were stored; another one yielded its response.
C10_Witness ==
    \E r, q \in Reqs :
        /\ req[r].result = "parse_err" /\ req[r].outcome = "panic"
        /\ req[r].stored # {}
        /\ req[q].result = "ok" /\ req[q].outcome = "response"

\* C11 as stated: once the test has dropped its reference the serving task
\* is aborted, whatever requests are still in flight.
C11_AbortedWithOwner == ~owner => aborted

\* C11, amended: the serving task is aborted exactly when the last reference
\* to the server's state is gone, the test's and those of the requests made
\* from it; a request in flight holds one, so its server is still serving
\* and answers it even after the test dropped its own reference.
C11_AbortedWithLastReference ==
    /\ [](aborted <=> (~owner /\ \A r \in Reqs : ~HoldsArc(r)))
    /\ [](\A r \in Reqs : req[r].pc \in Sending => ~aborted)
    /\ [][ /\ aborted => aborted'
           /\ \A r \in Reqs :
                (~owner /\ req[r].pc = "awaiting_transport"
                        /\ req'[r].pc = "reading_body") => ~aborted ]_vars

\* The test has dropped its reference while a request is awaiting the
\* transport, and the serving task is not aborted.
C11_Witness ==
    /\ ~owner /\ ~aborted
    /\ \E r \in Reqs : req[r].pc = "awaiting_transport"

\* C12: on a poisoned mutex every step that needs the lock ends in the lock
\* error: building a request (reading the defaults, Request::new), a call of
\* add_cookie, add_cookies or clear_cookies, and the merge of a response's
\* cookies.  None of them is tried again, none takes the lock, and the jar
\* stays as it is; the mutex stays poisoned.
C12_PoisonedLockFails ==
    [][ poisoned =>
          /\ poisoned' /\ lock = Free /\ lock' = Free
          /\ jar' = jar
          /\ \A r \in Reqs :
               /\ (StepOf(r) /\ req[r].pc \in {"none", "configured", "saving"}) =>
                    /\ req'[r].result = "lock_err"
                    /\ req'[r].pc \in {"failed", "done"}
                    /\ req'[r].cookies = EmptyJar
               /\ req[r].pc \in {"failed", "done"} => req'[r] = req[r]
          /\ (req' = req /\ owner' = owner) => server_call_failed' ]_vars

\* The mutex is poisoned; a call on the server and a request have come back
\* with the lock error.
C12_Witness ==
    /\ poisoned /\ server_call_failed
    /\ \E r \in Reqs : req[r].result = "lock_err"

\* C20 as stated: a Set-Cookie value that is not a cookie, one that is not
\* even text included, ends the merge with the parse error returned as a
\* value; the lock is released and the mutex is not poisoned.
C20_BadHeaderIsParseError ==
    [][ \A r \in Reqs :
          (/\ req[r].pc = "merging" /\ req[r].cur # <<>>
           /\ ~(to_str_ok(req[r].cur) /\ parse_ok(req[r].cur))
           /\ StepOf(r)) =>
              /\ req'[r].result = "parse_err"
              /\ lock' = Free
              /\ ~poisoned' ]_vars

\* The values of the Content-Type headers of the request r has on the wire.
SentContentTypes(r) ==
    LET hs == SelectSeq(req[r].wire, LAMBDA h : h.name = "content-type")
    IN  [i \in 1..Len(hs) |-> hs[i].value]

\* C13: a request on which json was called and content_type(x) after it is
\* sent with the content type x (that of the last content_type call); a
\* request of a server without a default content type on which only json was
\* called is sent with application/json.
C13_ContentTypeOverride ==
    \A r \in Reqs : req[r].pc = "awaiting_transport" =>
        LET cs == req[r].calls IN
        /\ \A i, j \in 1..Len(cs) :
             (/\ i < j /\ cs[i].op = "json" /\ cs[j].op = "content_type"
              /\ \A k \in (j+1)..Len(cs) : cs[k].op # "content_type")
                 => SentContentTypes(r) = <<cs[j].arg>>
        /\ (/\ default_content_type = NoContentType
            /\ cs # <<>> /\ \A i \in 1..Len(cs) : cs[i].op = "json")
                 => SentContentTypes(r) = <<JSON_CONTENT_TYPE>>

\* A request is on the wire after json and content_type("x"), with x as its
\* content type.
C13_Witness ==
    \E r \in Reqs :
        /\ req[r].pc = "awaiting_transport"
        /\ req[r].calls = <<Call("json", <<>>), Call("content_type", <<"x">>)>>
        /\ SentContentTypes(r) = <<(<<"x">>)>>

\* C14: the URL of a request for the sub-path p of the server at address a is
\* http://a when p is empty, http://a followed by p when p starts with "/",
\* and http://a/ followed by p otherwise.
C14_RequestUrl ==
    \A r \in Reqs : req[r].pc \in {"built", "awaiting_transport"} =>
        LET a == server_address
            p == req[r].path
            u == req[r].url
            rest == SubSeq(u, Len(a) + 2, Len(u))
        IN  /\ Len(u) >= Len(a) + 1
            /\ u[1] = "http://"
            /\ SubSeq(u, 2, Len(a) + 1) = a
            /\ p = <<>> => rest = <<>>
            /\ (p # <<>> /\ p[1] = "/") => rest = p
            /\ (p # <<>> /\ p[1] # "/") => (rest = <<"/">> \o p)

\* A request for the sub-path x of the server at h:8 has the URL http://h:8/x.
C14_Witness ==
    \E r \in Reqs :
        /\ req[r].pc = "built" /\ req[r].path = <<"x">>
        /\ req[r].url = <<"http://", "h", ":", "8", "/", "x">>

\* C18: a call of json or text sets the content type, to application/json
\* or text/plain, only on a request that has none, and keeps the one it has
\* (the server's default, or one an earlier call set); bytes leaves the
\* content type as it is; the request sent carries one Content-Type header
\* with the request's content type, or none if it has none.
C18_ContentType ==
    [][ \A r \in Reqs : (req[r].pc = "built" /\ StepOf(r)) =>
          LET ct == req[r].content_type
              op == IF Len(req'[r].calls) > Len(req[r].calls)
                    THEN req'[r].calls[Len(req'[r].calls)].op ELSE "none"
          IN  /\ op = "json" =>
                   req'[r].content_type =
                       IF ct = NoContentType THEN Some(JSON_CONTENT_TYPE) ELSE ct
              /\ op = "text" =>
                   req'[r].content_type =
                       IF ct = NoContentType THEN Some(TEXT_CONTENT_TYPE) ELSE ct
              /\ op = "bytes" => req'[r].content_type = ct
              /\ req'[r].pc = "awaiting_transport" =>
                   SentContentTypes(r)' = ct ]_vars

\* A request of a server whose default content type is d is on the wire with
\* d as its content type, after a call of json.
C18_Witness ==
    \E r \in Reqs :
        /\ req[r].pc = "awaiting_transport"
        /\ default_content_type = Some(<<"d">>)
        /\ \E i \in 1..Len(req[r].calls) : req[r].calls[i].op = "json"
        /\ SentContentTypes(r) = <<(<<"d">>)>>

\* The values of the Cookie headers of a list of headers.
SentCookies(wire) ==
    {wire[i].value : i \in {k \in 1..Len(wire) : wire[k].name = "cookie"}}

\* C15: a request's cookies are a snapshot.  Request::new copies the jar; a
\* step of the built request (add_cookie, clear_cookies) changes the copy
\* and never the jar; a step that changes the jar changes no request's copy
\* and nothing a request has on the wire; and send puts exactly the cookies
\* of the copy on the wire.
C15_SnapshotIsolation ==
    [][ \A r \in Reqs :
          /\ (req[r].pc = "new_locked" /\ req'[r].pc = "built") =>
                req'[r].cookies = jar
          /\ (req[r].pc = "built" /\ StepOf(r)) =>
                /\ jar' = jar
                /\ (req'[r].pc = "built" /\ req'[r].cookies # req[r].cookies) =>
                      \/ req'[r].cookies = EmptyJar
                      \/ \E c \in InputCookies :
                           req'[r].cookies =
                              {d \in req[r].cookies : d.name # c.name} \cup {c}
                /\ req'[r].pc = "awaiting_transport" =>
                      SentCookies(req'[r].wire) =
                          {cookie_to_string(c) : c \in req[r].cookies}
          /\ (req[r].pc \in {"built", "awaiting_transport"} /\ jar' # jar) =>
                /\ req'[r].cookies = req[r].cookies
                /\ req'[r].wire = req[r].wire ]_vars

\* A request is on the wire with the cookies of its snapshot and its own
\* add_cookie, while the server's jar has come to hold other cookies.
C15_Witness ==
    \E r \in Reqs :
        /\ req[r].pc = "awaiting_transport"
        /\ jar # EmptyJar /\ req[r].cookies # EmptyJar
        /\ \A c \in jar : c \notin req[r].cookies
        /\ SentCookies(req[r].wire) = {cookie_to_string(c) : c \in req[r].cookies}

\* The jar `after` is the jar `before` with the cookies cs stored one after
\* the other, the last of a name winning: a name of cs has the cookie of the
\* last of cs with that name and no other, any other name has what it had.
LastWins(before, cs, after) ==
    \A n \in {d.name : d \in before \cup after} \cup {cs[i].name : i \in 1..Len(cs)} :
        LET at == {i \in 1..Len(cs) : cs[i].name = n}
            named(j) == {d \in j : d.name = n}
        IN  IF at = {} THEN named(after) = named(before)
            ELSE named(after) = {cs[CHOOSE i \in at : \A k \in at : k <= i]}

\* C16: a merge whose header values all parse leaves the jar it found with,
\* for every name of the list, the cookie of the last header of that name,
\* and every other name as it was; add_cookie and add_cookies do the same
\* with their cookies.
C16_UpsertLastWins ==
    [][ /\ \A r \in Reqs :
             (req[r].pc = "merging" /\ req'[r].pc = "done" /\ req'[r].result = "ok") =>
                 LastWins(req[r].base,
                          [i \in 1..Len(req[r].resp) |-> parse(req[r].resp[i])], jar')
        /\ \A c \in ServerInputCookies :
             (add_cookie(c) /\ ~poisoned) => LastWins(jar, <<c>>, jar')
        /\ \A k \in InputJars :
             (add_cookies(k) /\ ~poisoned) =>
                 \A order \in Orders(k) : LastWins(jar, order, jar') ]_vars

\* A merge has completed whose response set one name more than once, into a
\* jar that held a cookie of another name, which is still there.
C16_Witness ==
    \E r \in Reqs :
        /\ SavedOk(r)
        /\ req[r].resp_n > Cardinality(req[r].stored)
        /\ req[r].stored # {} /\ req[r].stored \subseteq jar
        /\ \E d \in jar : \A c \in req[r].stored : c.name # d.name

\* The cookies of jar j named n.
Named(j, n) == {d \in j : d.name = n}

\* C17: a merge holds the mutex from its first value to its last.  While a
\* request is merging nobody else has the lock, only its own steps change
\* the jar, no other request takes its snapshot and no call on the server
\* reads or writes the jar; when it ends the jar is the one it found with
\* its whole list stored.  A name that two completed responses both set
\* (and nothing has overwritten since) has exactly one cookie in the jar,
\* the one either of them stored.
C17_MergesSerialized ==
    /\ [](\A r \in Reqs : req[r].pc = "merging" =>
             /\ lock = r
             /\ \A q \in Reqs \ {r} : req[q].pc \notin {"merging", "new_locked"})
    /\ [][ \A r \in Reqs : req[r].pc = "merging" =>
             /\ ~StepOf(r) =>
                  /\ jar' = jar /\ server_call_failed' = server_call_failed
                  /\ \A q \in Reqs :
                       /\ req'[q].pc # "new_locked"
                       /\ req'[q].pc = "built" => req[q].pc = "built"
             /\ (req'[r].pc = "done" /\ req'[r].result = "ok") =>
                  jar' = StoreAll(req[r].base, req[r].resp) ]_vars
    /\ [](\A r1, r2 \in Reqs : (r1 # r2 /\ SavedOk(r1) /\ SavedOk(r2)) =>
             \A c1 \in req[r1].stored : \A c2 \in req[r2].stored :
                 (c1.name = c2.name /\ \E p \in saved : p.name = c1.name) =>
                     Named(jar, c1.name) \in {{c1}, {c2}})

\* Two responses that set the same name to different values have both been
\* merged, and the jar holds the value of one of them.
C17_Witness ==
    \E r1, r2 \in Reqs :
        /\ r1 # r2 /\ SavedOk(r1) /\ SavedOk(r2)
        /\ \E c1 \in req[r1].stored : \E c2 \in req[r2].stored :
             /\ c1.name = c2.name /\ c1.value # c2.value
             /\ Named(jar, c1.name) = {c2}

\* C19: a request that has been sent and is polled, with a transport that
\* answers, completes: with the response or with an error.  None waits for
\* the lock for ever.
C19_PolledRequestCompletes ==
    \A r \in Reqs : (req[r].pc \in Sending) ~> (req[r].pc = "done")

\* A request waits for the lock to merge its cookies while the other one is
\* merging.
C19_Witness ==
    \E r, q \in Reqs :
        /\ req[r].pc = "saving" /\ req[q].pc = "merging" /\ lock = q

====
